---- MODULE Spec2Model ----
(***************************************************************************)
(* Aurora cluster scheduled stop/start (scripts/aurora_cluster_scheduler). *)
(*                                                                         *)
(* One run of handler(event, context): validation of the Action input,     *)
(* paginated discovery, the eligibility filter and the tag gate, then the  *)
(* sequential processing of every eligible cluster with the transition     *)
(* guard and the retrying executor.  Every remote call of the RDS client   *)
(* is one step whose outcome (a response or a fault) is chosen by the      *)
(* environment.                                                            *)
(*                                                                         *)
(* Python strings that the code transforms (lower, startswith) are tuples  *)
(* of one-character strings; strings that are only compared for equality   *)
(* (statuses, tag keys, identifiers) are TLA+ strings.                     *)
(***************************************************************************)
EXTENDS Integers, Sequences, FiniteSets, TLC

\* ------------------------------------------------------------------ bounds
\* Largest inventory a run discovers.
MaxClusters == 2
\* Number of descriptors the service returns per inventory page.
PageSize == 1

\* --------------------------------------------------------------- constants
ACTION_START == <<"s", "t", "a", "r", "t">>
ACTION_STOP == <<"s", "t", "o", "p">>

STATUS_AVAILABLE == "available"
STATUS_STOPPED == "stopped"
STATUS_STARTING == "starting"
STATUS_STOPPING == "stopping"

UNSTOPPABLE_ENGINE_MODES ==
    { <<"g", "l", "o", "b", "a", "l">>,
      <<"p", "a", "r", "a", "l", "l", "e", "l", "q", "u", "e", "r", "y">>,
      <<"m", "u", "l", "t", "i", "m", "a", "s", "t", "e", "r">>,
      <<"s", "e", "r", "v", "e", "r", "l", "e", "s", "s">> }

MAX_RETRIES == 3
RETRY_DELAY_SECONDS == 5
\* The pause between an accepted start/stop and the confirmatory read.
CONFIRM_PAUSE_SECONDS == 1

\* ------------------------------------------------------ string operations
UpperLetters ==
    <<"A", "B", "C", "D", "E", "F", "G", "H", "I", "J", "K", "L", "M",
      "N", "O", "P", "Q", "R", "S", "T", "U", "V", "W", "X", "Y", "Z">>
LowerLetters ==
    <<"a", "b", "c", "d", "e", "f", "g", "h", "i", "j", "k", "l", "m",
      "n", "o", "p", "q", "r", "s", "t", "u", "v", "w", "x", "y", "z">>

\* str.lower() on one character: an upper-case letter maps to its lower-case
\* letter, every other character to itself.
LowerOf ==
    [c \in {UpperLetters[i] : i \in DOMAIN UpperLetters} |->
        LowerLetters[CHOOSE i \in DOMAIN UpperLetters : UpperLetters[i] = c]]
LowerChar(c) == IF c \in DOMAIN LowerOf THEN LowerOf[c] ELSE c

\* A buggy lower() that leaves the string as it is.
LowerIdentity(s) == s

\* str.lower()
Lower(s) == [i \in 1..Len(s) |-> LowerChar(s[i])]

\* str.startswith(prefix)
StartsWith(s, prefix) ==
    /\ Len(prefix) <= Len(s)
    /\ \A i \in 1..Len(prefix) : s[i] = prefix[i]

\* dict.get(key, default)
Get(d, key, default) == IF key \in DOMAIN d THEN d[key] ELSE default

\* The members of a list.
Range(s) == {s[i] : i \in DOMAIN s}

\* ------------------------------------------------------------ environment
ClusterIds == <<"c1", "c2", "c3", "c4">>
Arn(id) == <<"arn", id>>

Statuses ==
    {STATUS_AVAILABLE, STATUS_STOPPED, STATUS_STARTING, STATUS_STOPPING,
     "backing-up"}

\* The fault classes the executor distinguishes.
InvalidDBClusterStateFault == "InvalidDBClusterStateFault"
OtherFault == "Exception"

EngineAuroraMysql ==
    <<"a", "u", "r", "o", "r", "a", "-", "m", "y", "s", "q", "l">>
EngineMysql == <<"m", "y", "s", "q", "l">>
EnginePostgres == <<"p", "o", "s", "t", "g", "r", "e", "s">>
ModeProvisioned ==
    <<"p", "r", "o", "v", "i", "s", "i", "o", "n", "e", "d">>
ModeServerlessMixed ==
    <<"S", "e", "r", "v", "e", "r", "l", "e", "s", "s">>

\* The descriptors the inventory is drawn from: an Aurora cluster without
\* EngineMode, a Serverless v1 cluster and a Multi-AZ DB cluster.  Status is
\* the status the listing reports at discovery time.
Descriptor(id, kind) ==
    CASE kind = "aurora" ->
           [DBClusterIdentifier |-> id, DBClusterArn |-> Arn(id),
            Engine |-> EngineAuroraMysql, Status |-> STATUS_AVAILABLE]
      [] kind = "serverless" ->
           [DBClusterIdentifier |-> id, DBClusterArn |-> Arn(id),
            Engine |-> EngineAuroraMysql, EngineMode |-> ModeServerlessMixed,
            Status |-> STATUS_AVAILABLE]
      [] kind = "multiaz" ->
           [DBClusterIdentifier |-> id, DBClusterArn |-> Arn(id),
            Engine |-> EngineMysql, DBClusterInstanceClass |-> "db.m5d.large",
            Status |-> STATUS_AVAILABLE]

DescriptorKinds == {"aurora", "serverless", "multiaz"}

\* Every inventory of at most MaxClusters clusters with distinct identifiers.
Inventories ==
    UNION { { [i \in 1..n |-> Descriptor(ClusterIds[i], k[i])] :
                k \in [1..n -> DescriptorKinds] } : n \in 0..MaxClusters }

\* The pages the paginator yields for an inventory: PageSize descriptors per
\* page, and a single empty page for an empty inventory.
NumPages(inv) ==
    IF Len(inv) = 0 THEN 1 ELSE (Len(inv) + PageSize - 1) \div PageSize

Page(inv, p) ==
    SubSeq(inv, (p - 1) * PageSize + 1,
           IF p * PageSize < Len(inv) THEN p * PageSize ELSE Len(inv))

\* The inputs of a run: a valid Start with the default tag key, a valid Stop
\* with a tag key of its own, an Action that is neither, and no Action.
Events ==
    { [Action |-> <<"S", "t", "a", "r", "t">>],
      [Action |-> <<"S", "T", "O", "P">>, ScheduleTagKey |-> "Env"],
      [Action |-> <<"p", "a", "u", "s", "e">>],
      [ScheduleTagKey |-> "Env"] }

\* The tag lists a lookup can return.
TagLists ==
    { <<>>,
      <<[Key |-> "Schedule", Value |-> ""]>>,
      <<[Key |-> "Env", Value |-> "prod"]>>,
      <<[Key |-> "Env", Value |-> "dev"],
        [Key |-> "Schedule", Value |-> "office-hours"]>> }


\* An RDS client call answers with a response or raises a fault.
Ok(v) == [ok |-> TRUE, value |-> v]
Fault(kind) == [ok |-> FALSE, kind |-> kind]

\* An exception object: its class and the position in the trace of the call
\* that raised it (two faults of one class are still two objects).
Exc(kind, at) == [kind |-> kind, at |-> at]
None == [kind |-> "None", at |-> 0]

\* Trace entries: a remote call with a summary of its outcome, or a sleep.
Call(op, arg, res) == [op |-> op, arg |-> arg, res |-> res]
Sleep(secs) == [op |-> "sleep", secs |-> secs]

\* ------------------------------------------------------------------ state
VARIABLES
    event,          \* the invocation input
    inventory,      \* the clusters the service holds, in listing order
    pc,             \* position of the run
    error,          \* the exception the run aborted with, "" if none
    action,         \* handler: normalised Action
    tag_key,        \* handler: opt-in tag key
    all_clusters,   \* handler: descriptors read so far
    page,           \* next inventory page to read
    scan,           \* handler: position of the filter loop in all_clusters
    tags,           \* has_schedule_tag: the tag list of the last lookup
    eligible,       \* handler: identifiers that passed filter and tag gate
    idx,            \* handler: position of the processing loop in eligible
    processed,      \* handler: report lists
    skipped,
    failed,
    result,         \* process_cluster: the outcome record being built
    current_status, \* process_cluster: the freshly fetched status
    attempt,        \* perform_action_with_retry: loop counter
    last_exception, \* perform_action_with_retry: last transient exception
    trace,          \* every remote call and sleep of the run, in order
    log             \* calls of the current process_cluster with their results

vars ==
    <<event, inventory, pc, error, action, tag_key, all_clusters, page, scan,
      tags, eligible, idx, processed, skipped, failed, result, current_status,
      attempt, last_exception, trace, log>>

envVars == <<event, inventory>>
inputVars == <<action, tag_key>>
discVars == <<all_clusters, page>>
filtVars == <<scan, tags, eligible>>
listVars == <<processed, skipped, failed>>
retryVars == <<attempt, last_exception>>

NoResult == [cluster_id |-> "", outcome |-> "", message |-> [text |-> ""],
             status |-> ""]

Init ==
    /\ event \in Events
    /\ inventory \in Inventories
    /\ pc = "validate"
    /\ error = ""
    /\ action = <<>>
    /\ tag_key = ""
    /\ all_clusters = <<>>
    /\ page = 1
    /\ scan = 1
    /\ tags = <<>>
    /\ eligible = <<>>
    /\ idx = 1
    /\ processed = <<>>
    /\ skipped = <<>>
    /\ failed = <<>>
    /\ result = NoResult
    /\ current_status = ""
    /\ attempt = 0
    /\ last_exception = None
    /\ trace = <<>>
    /\ log = <<>>

\* --------------------------------------------------------------- helpers
is_multi_az_db_cluster(cluster) ==
    LET engine == Get(cluster, "Engine", <<>>)
        has_instance_class == "DBClusterInstanceClass" \in DOMAIN cluster
    IN  /\ StartsWith(engine, EngineMysql) \/ StartsWith(engine, EnginePostgres)
        /\ has_instance_class

\* An eligibility filter that compares the engine mode as it is spelled.
is_stoppable_cluster_case_sensitive(cluster) ==
    LET engine_mode == Get(cluster, "EngineMode", ModeProvisioned)
    IN  IF engine_mode \in UNSTOPPABLE_ENGINE_MODES THEN FALSE
        ELSE IF is_multi_az_db_cluster(cluster) THEN FALSE
        ELSE TRUE

is_stoppable_cluster(cluster) ==
    LET engine_mode == Lower(Get(cluster, "EngineMode", ModeProvisioned))
    IN  IF engine_mode \in UNSTOPPABLE_ENGINE_MODES THEN FALSE
        ELSE IF is_multi_az_db_cluster(cluster) THEN FALSE
        ELSE TRUE

\* A tag test that compares the tag's value instead of its key.
has_schedule_tag_by_value(response, key) ==
    IF response.ok
    THEN \E j \in DOMAIN response.value : response.value[j].Value = key
    ELSE FALSE

\* A tag test whose except clause admits the cluster.
has_schedule_tag_fail_open(response, key) ==
    IF response.ok
    THEN \E j \in DOMAIN response.value : response.value[j].Key = key
    ELSE TRUE

\* has_schedule_tag applied to the answer of list_tags_for_resource.
has_schedule_tag(response, key) ==
    IF response.ok
    THEN \E j \in DOMAIN response.value : response.value[j].Key = key
    ELSE FALSE

\* The api_call perform_action_with_retry selects.
ApiCall(act) ==
    IF act = ACTION_START THEN "start_db_cluster" ELSE "stop_db_cluster"

\* A guard whose Start branch lacks the check against STATUS_STOPPED.
GuardStartNoSourceCheck(act, status) ==
    IF act = ACTION_START
    THEN IF status \in {STATUS_AVAILABLE, STATUS_STARTING}
         THEN "already" ELSE "proceed"
    ELSE IF act = ACTION_STOP
    THEN IF status \in {STATUS_STOPPED, STATUS_STOPPING} THEN "already"
         ELSE IF status # STATUS_AVAILABLE THEN "cannot"
         ELSE "proceed"
    ELSE "proceed"

\* A guard whose Stop branch lacks the check against STATUS_AVAILABLE.
GuardStopNoSourceCheck(act, status) ==
    IF act = ACTION_START
    THEN IF status \in {STATUS_AVAILABLE, STATUS_STARTING} THEN "already"
         ELSE IF status # STATUS_STOPPED THEN "cannot"
         ELSE "proceed"
    ELSE IF act = ACTION_STOP
    THEN IF status \in {STATUS_STOPPED, STATUS_STOPPING}
         THEN "already" ELSE "proceed"
    ELSE "proceed"

\* The transition guard of process_cluster: "already" and "cannot" are the
\* two skipped returns, "proceed" falls through to the executor.
Guard(act, status) ==
    IF act = ACTION_START
    THEN IF status \in {STATUS_AVAILABLE, STATUS_STARTING} THEN "already"
         ELSE IF status # STATUS_STOPPED THEN "cannot"
         ELSE "proceed"
    ELSE IF act = ACTION_STOP
    THEN IF status \in {STATUS_STOPPED, STATUS_STOPPING} THEN "already"
         ELSE IF status # STATUS_AVAILABLE THEN "cannot"
         ELSE "proceed"
    ELSE "proceed"

\* An aggregation written with if ... if ... else instead of if ... elif
\* ... else: a processed identifier also reaches the else branch.
AggregateIfIf(lists, cluster_id, outcome) ==
    LET first == IF outcome = "processed"
                 THEN [lists EXCEPT !.processed = Append(@, cluster_id)]
                 ELSE lists
    IN  IF outcome = "skipped"
        THEN [first EXCEPT !.skipped = Append(@, cluster_id)]
        ELSE [first EXCEPT !.failed = Append(@, cluster_id)]

\* An aggregation that puts the identifier at the front of its list.
AggregatePrepend(lists, cluster_id, outcome) ==
    IF outcome = "processed"
    THEN [lists EXCEPT !.processed = <<cluster_id>> \o @]
    ELSE IF outcome = "skipped"
    THEN [lists EXCEPT !.skipped = <<cluster_id>> \o @]
    ELSE [lists EXCEPT !.failed = <<cluster_id>> \o @]

\* handler, the if/elif/else that appends the identifier to one list.
Aggregate(lists, cluster_id, outcome) ==
    IF outcome = "processed"
    THEN [lists EXCEPT !.processed = Append(@, cluster_id)]
    ELSE IF outcome = "skipped"
    THEN [lists EXCEPT !.skipped = Append(@, cluster_id)]
    ELSE [lists EXCEPT !.failed = Append(@, cluster_id)]


\* ------------------------------------------------------------ validation
ValidAction(act) == act \in {ACTION_START, ACTION_STOP}

\* handler, the normalisation and validation of the input.
Validate ==
    /\ pc = "validate"
    /\ action' = Lower(Get(event, "Action", <<>>))
    /\ tag_key' = Get(event, "ScheduleTagKey", "Schedule")
    /\ IF ~ValidAction(action')
       THEN pc' = "aborted" /\ error' = "ValueError"
       ELSE pc' = "discover" /\ error' = error
    /\ UNCHANGED <<envVars, discVars, filtVars, idx, listVars, result,
                   current_status, retryVars, trace, log>>

\* ------------------------------------------------------------- discovery
\* A discovery loop that swallows the fault of a page read and goes on to
\* the filter with the pages read so far.
ReadPageBestEffort ==
    /\ pc = "discover"
    /\ \E ok \in BOOLEAN :
         /\ trace' = Append(trace, Call("describe_db_clusters_page", page,
                                        IF ok THEN "ok" ELSE "fault"))
         /\ IF ok
            THEN /\ all_clusters' = all_clusters \o Page(inventory, page)
                 /\ page' = page + 1
                 /\ pc' = IF page = NumPages(inventory)
                          THEN "filter" ELSE "discover"
            ELSE /\ pc' = "filter"
                 /\ UNCHANGED discVars
         /\ error' = error
    /\ UNCHANGED <<envVars, inputVars, filtVars, idx, listVars, result,
                   current_status, retryVars, log>>

\* A discovery loop that stops after the first page.
ReadPageFirstOnly ==
    /\ pc = "discover"
    /\ \E ok \in BOOLEAN :
         /\ trace' = Append(trace, Call("describe_db_clusters_page", page,
                                        IF ok THEN "ok" ELSE "fault"))
         /\ IF ok
            THEN /\ all_clusters' = all_clusters \o Page(inventory, page)
                 /\ page' = page + 1
                 /\ pc' = "filter"
                 /\ error' = error
            ELSE /\ pc' = "aborted"
                 /\ error' = "DiscoveryFault"
                 /\ UNCHANGED discVars
    /\ UNCHANGED <<envVars, inputVars, filtVars, idx, listVars, result,
                   current_status, retryVars, log>>

\* handler, one iteration of the paginator: a page is read and appended, or
\* the read raises and the exception leaves handler.
ReadPage ==
    /\ pc = "discover"
    /\ \E ok \in BOOLEAN :
         /\ trace' = Append(trace, Call("describe_db_clusters_page", page,
                                        IF ok THEN "ok" ELSE "fault"))
         /\ IF ok
            THEN /\ all_clusters' = all_clusters \o Page(inventory, page)
                 /\ page' = page + 1
                 /\ pc' = IF page = NumPages(inventory)
                          THEN "filter" ELSE "discover"
                 /\ error' = error
            ELSE /\ pc' = "aborted"
                 /\ error' = "DiscoveryFault"
                 /\ UNCHANGED discVars
    /\ UNCHANGED <<envVars, inputVars, filtVars, idx, listVars, result,
                   current_status, retryVars, log>>

\* ------------------------------------------------------- filter and gate
\* handler, an iteration of the filter loop that is_stoppable_cluster ends.
FilterReject ==
    /\ pc = "filter"
    /\ scan <= Len(all_clusters)
    /\ ~is_stoppable_cluster(all_clusters[scan])
    /\ scan' = scan + 1
    /\ UNCHANGED <<envVars, pc, error, inputVars, discVars, tags, eligible,
                   idx, listVars, result, current_status, retryVars, trace,
                   log>>

\* handler, an iteration of the filter loop that reaches has_schedule_tag:
\* one tag lookup, which answers with a tag list or raises.
TagLookup ==
    /\ pc = "filter"
    /\ scan <= Len(all_clusters)
    /\ is_stoppable_cluster(all_clusters[scan])
    /\ \E response \in {Ok(tl) : tl \in TagLists}
                       \cup {Fault(OtherFault)} :
         LET cluster == all_clusters[scan]
             summary ==
                 IF ~response.ok THEN "fault"
                 ELSE IF tag_key \in {t.Key : t \in Range(response.value)}
                 THEN "tagged" ELSE "untagged"
         IN  /\ trace' = Append(trace, Call("list_tags_for_resource",
                                            cluster.DBClusterArn, summary))
             /\ tags' = IF response.ok THEN response.value ELSE tags
             /\ eligible' = IF has_schedule_tag(response, tag_key)
                            THEN Append(eligible, cluster.DBClusterIdentifier)
                            ELSE eligible
    /\ scan' = scan + 1
    /\ UNCHANGED <<envVars, pc, error, inputVars, discVars, idx, listVars,
                   result, current_status, retryVars, log>>

\* handler, the end of the filter loop.
FilterDone ==
    /\ pc = "filter"
    /\ scan > Len(all_clusters)
    /\ pc' = "process"
    /\ idx' = 1
    /\ processed' = <<>>
    /\ skipped' = <<>>
    /\ failed' = <<>>
    /\ UNCHANGED <<envVars, error, inputVars, discVars, filtVars, result,
                   current_status, retryVars, trace, log>>

\* ------------------------------------------------------------ processing
Lists == [processed |-> processed, skipped |-> skipped, failed |-> failed]

\* A processing loop that stays on a cluster whose outcome is failed.
FinishRepeatsFailed(res, tr, lg) ==
    /\ result' = res
    /\ LET l == Aggregate(Lists, res.cluster_id, res.outcome)
       IN  /\ processed' = l.processed
           /\ skipped' = l.skipped
           /\ failed' = l.failed
    /\ idx' = IF res.outcome = "failed" THEN idx ELSE idx + 1
    /\ pc' = "process"
    /\ error' = error
    /\ trace' = tr
    /\ log' = lg

\* handler, the body of the processing loop once process_cluster has
\* returned res: the identifier goes to one list and the loop moves on.
Finish(res, tr, lg) ==
    /\ result' = res
    /\ LET l == Aggregate(Lists, res.cluster_id, res.outcome)
       IN  /\ processed' = l.processed
           /\ skipped' = l.skipped
           /\ failed' = l.failed
    /\ idx' = idx + 1
    /\ pc' = "process"
    /\ error' = error
    /\ trace' = tr
    /\ log' = lg

\* A process_cluster without its except clause: the exception leaves
\* handler.
ClusterFaultEscapes(res, exc, tr, lg) ==
    /\ pc' = "aborted"
    /\ error' = exc.kind
    /\ result' = res
    /\ trace' = tr
    /\ log' = lg
    /\ UNCHANGED <<idx, listVars>>

\* process_cluster, the except clause: the outcome is failed and the
\* message is the exception.
ClusterFault(res, exc, tr, lg) ==
    Finish([res EXCEPT !.outcome = "failed",
                       !.message = [text |-> "fault", exc |-> exc]], tr, lg)

\* A result that keeps the status fetched before the action.
ProcessedResultStale(res, act, new_status) ==
    [res EXCEPT !.outcome = "processed",
                !.message = [text |-> "initiated", action |-> act]]

\* process_cluster, the lines after perform_action_with_retry returned.
ProcessedResult(res, act, new_status) ==
    [res EXCEPT !.outcome = "processed",
                !.status = new_status,
                !.message = [text |-> "initiated", action |-> act]]

\* A classification that retries every fault.
RetryableAlways(kind) == TRUE

\* perform_action_with_retry: InvalidDBClusterStateFault is re-raised, every
\* other exception is handled by the retry clause.
Retryable(kind) == kind # InvalidDBClusterStateFault

\* perform_action_with_retry: last_exception = exc
KeepException(last, exc) == exc

\* A loop bound that is off by one.
MoreAttemptsOffByOne(n) == n <= MAX_RETRIES

\* perform_action_with_retry: attempt < MAX_RETRIES, which decides both
\* the sleep and whether the loop runs again.
MoreAttempts(n) == n < MAX_RETRIES

\* perform_action_with_retry, the except clauses of the retry loop, entered
\* with the exception a call of the try block raised.
OnFault(exc, tr, lg) ==
    IF ~Retryable(exc.kind)
    THEN /\ ClusterFault(result, exc, tr, lg)
         /\ UNCHANGED <<current_status, retryVars>>
    ELSE /\ last_exception' = KeepException(last_exception, exc)
         /\ IF MoreAttempts(attempt)
            THEN /\ trace' = Append(tr, Sleep(RETRY_DELAY_SECONDS))
                 /\ log' = Append(lg, Sleep(RETRY_DELAY_SECONDS))
                 /\ attempt' = attempt + 1
                 /\ pc' = "invoke"
                 /\ UNCHANGED <<result, current_status, idx, listVars, error>>
            ELSE /\ ClusterFault(result, last_exception', tr, lg)
                 /\ UNCHANGED <<current_status, attempt>>

\* process_cluster up to the guard: the status is fetched afresh; a fault
\* fails the cluster, the guard skips it or hands it to the executor.
Fetch ==
    /\ pc = "process"
    /\ idx <= Len(eligible)
    /\ \E response \in {Ok(s) : s \in Statuses}
                       \cup {Fault(OtherFault),
                             Fault(InvalidDBClusterStateFault)} :
         LET cluster_id == eligible[idx]
             res0 == [cluster_id |-> cluster_id, outcome |-> "failed",
                      message |-> [text |-> ""], status |-> ""]
             tr == Append(trace, Call("describe_db_clusters", cluster_id,
                                      IF response.ok THEN "ok" ELSE "fault"))
             lg == <<[op |-> "describe_db_clusters",
                      res |-> IF response.ok THEN response.value
                              ELSE response.kind]>>
         IN  IF ~response.ok
             THEN /\ ClusterFault(res0, Exc(response.kind, Len(tr)), tr, lg)
                  /\ current_status' = ""
                  /\ UNCHANGED retryVars
             ELSE LET status == response.value
                      res1 == [res0 EXCEPT !.status = status]
                      g == Guard(action, status)
                  IN  /\ current_status' = status
                      /\ IF g = "already"
                         THEN /\ Finish([res1 EXCEPT
                                   !.outcome = "skipped",
                                   !.message = [text |-> "already",
                                                status |-> status]], tr, lg)
                              /\ UNCHANGED retryVars
                         ELSE IF g = "cannot"
                         THEN /\ Finish([res1 EXCEPT
                                   !.outcome = "skipped",
                                   !.message = [text |-> "cannot",
                                                status |-> status]], tr, lg)
                              /\ UNCHANGED retryVars
                         ELSE /\ result' = res1
                              /\ attempt' = 1
                              /\ last_exception' = None
                              /\ pc' = "invoke"
                              /\ trace' = tr
                              /\ log' = lg
                              /\ UNCHANGED <<idx, listVars, error>>
    /\ UNCHANGED <<envVars, inputVars, discVars, filtVars>>

\* perform_action_with_retry, the api_call of one attempt: accepted, it is
\* followed by the pause; refused, the except clauses decide.
Invoke ==
    /\ pc = "invoke"
    /\ \E response \in {Ok("accepted"), Fault(InvalidDBClusterStateFault),
                       Fault(OtherFault)} :
         LET cluster_id == result.cluster_id
             tr == Append(trace, Call(ApiCall(action), cluster_id,
                                      IF response.ok THEN "ok" ELSE "fault"))
             lg == Append(log, [op |-> ApiCall(action),
                                res |-> IF response.ok THEN "ok"
                                        ELSE response.kind])
         IN  IF response.ok
             THEN /\ trace' = Append(tr, Sleep(CONFIRM_PAUSE_SECONDS))
                  /\ log' = Append(lg, Sleep(CONFIRM_PAUSE_SECONDS))
                  /\ pc' = "confirm"
                  /\ UNCHANGED <<result, current_status, retryVars, idx,
                                 listVars, error>>
             ELSE OnFault(Exc(response.kind, Len(tr)), tr, lg)
    /\ UNCHANGED <<envVars, inputVars, discVars, filtVars>>

\* perform_action_with_retry, the confirmatory read of one attempt, in the
\* same try block as the api_call.
Confirm ==
    /\ pc = "confirm"
    /\ \E response \in {Ok(s) : s \in Statuses}
                       \cup {Fault(OtherFault),
                             Fault(InvalidDBClusterStateFault)} :
         LET cluster_id == result.cluster_id
             tr == Append(trace, Call("describe_db_clusters", cluster_id,
                                      IF response.ok THEN "ok" ELSE "fault"))
             lg == Append(log, [op |-> "describe_db_clusters",
                                res |-> IF response.ok THEN response.value
                                        ELSE response.kind])
         IN  IF response.ok
             THEN /\ Finish(ProcessedResult(result, action, response.value),
                            tr, lg)
                  /\ UNCHANGED <<current_status, retryVars>>
             ELSE OnFault(Exc(response.kind, Len(tr)), tr, lg)
    /\ UNCHANGED <<envVars, inputVars, discVars, filtVars>>

\* handler, the end of the processing loop: the report is returned.
Return ==
    /\ pc = "process"
    /\ idx > Len(eligible)
    /\ pc' = "returned"
    /\ UNCHANGED <<envVars, error, inputVars, discVars, filtVars, idx,
                   listVars, result, current_status, retryVars, trace, log>>

\* -------------------------------------------- descriptors for the filter
EngineAuroraPostgres ==
    <<"a", "u", "r", "o", "r", "a", "-", "p", "o", "s", "t", "g", "r", "e",
      "s", "q", "l">>
EnginePostgresql ==
    <<"p", "o", "s", "t", "g", "r", "e", "s", "q", "l">>

\* The engine modes of the descriptors, in several spellings.
FilterEngineModes ==
    { ModeProvisioned,
      <<"P", "r", "o", "v", "i", "s", "i", "o", "n", "e", "d">>,
      <<"g", "l", "o", "b", "a", "l">>,
      <<"G", "L", "O", "B", "A", "L">>,
      <<"p", "a", "r", "a", "l", "l", "e", "l", "q", "u", "e", "r", "y">>,
      <<"P", "a", "r", "a", "l", "l", "e", "l", "Q", "u", "e", "r", "y">>,
      <<"m", "u", "l", "t", "i", "m", "a", "s", "t", "e", "r">>,
      <<"M", "U", "L", "T", "I", "M", "A", "S", "T", "E", "R">>,
      <<"s", "e", "r", "v", "e", "r", "l", "e", "s", "s">>,
      ModeServerlessMixed }

FilterEngines ==
    {EngineAuroraMysql, EngineAuroraPostgres, EngineMysql, EnginePostgresql}

\* Every descriptor over these engines and modes: Engine and EngineMode
\* present or absent, the DBClusterInstanceClass field present or absent.
FilterDescriptors ==
    LET base == [DBClusterIdentifier |-> ClusterIds[1],
                 DBClusterArn |-> Arn(ClusterIds[1]),
                 Status |-> STATUS_AVAILABLE]
        withEngine ==
            {base} \cup {[f \in DOMAIN base \cup {"Engine"} |->
                            IF f = "Engine" THEN e ELSE base[f]] :
                         e \in FilterEngines}
        withMode ==
            withEngine
            \cup UNION {{[f \in DOMAIN d \cup {"EngineMode"} |->
                            IF f = "EngineMode" THEN m ELSE d[f]] :
                         m \in FilterEngineModes} : d \in withEngine}
    IN  withMode
        \cup {[f \in DOMAIN d \cup {"DBClusterInstanceClass"} |->
                 IF f = "DBClusterInstanceClass" THEN "db.m5d.large"
                 ELSE d[f]] : d \in withMode}

\* A run over an inventory of one cluster with any of these descriptors.
InitFilter ==
    /\ event \in Events
    /\ inventory \in {<<d>> : d \in FilterDescriptors}
    /\ pc = "validate"
    /\ error = ""
    /\ action = <<>>
    /\ tag_key = ""
    /\ all_clusters = <<>>
    /\ page = 1
    /\ scan = 1
    /\ tags = <<>>
    /\ eligible = <<>>
    /\ idx = 1
    /\ processed = <<>>
    /\ skipped = <<>>
    /\ failed = <<>>
    /\ result = NoResult
    /\ current_status = ""
    /\ attempt = 0
    /\ last_exception = None
    /\ trace = <<>>
    /\ log = <<>>

Next ==
    \/ Validate
    \/ ReadPage
    \/ FilterReject
    \/ TagLookup
    \/ FilterDone
    \/ Fetch
    \/ Invoke
    \/ Confirm
    \/ Return

Spec == Init /\ [][Next]_vars


\* The run is one thread of control: while a step is possible, one is taken
\* (every remote call returns or raises).
FairSpec == Spec /\ WF_vars(Next)

SpecFilter == InitFilter /\ [][Next]_vars

\* ------------------------------------------------------------ properties
StartStopOps == {"start_db_cluster", "stop_db_cluster"}

\* The start/stop invocations the run has made for a cluster.
InvocationsOf(id) ==
    Cardinality({j \in DOMAIN trace :
                    trace[j].op \in StartStopOps /\ trace[j].arg = id})

\* The start/stop invocations for a cluster that the service accepted.
AcceptedOf(id) ==
    Cardinality({j \in DOMAIN trace :
                    /\ trace[j].op \in StartStopOps
                    /\ trace[j].arg = id
                    /\ trace[j].res = "ok"})

Occurrences(list, id) == Cardinality({j \in DOMAIN list : list[j] = id})

\* How often a cluster is listed in the report.
Listed(id) ==
    Occurrences(processed, id) + Occurrences(skipped, id)
        + Occurrences(failed, id)

\* process_cluster has returned for eligible[idx - 1]: result is its outcome
\* and log holds its calls.
Finished == pc \in {"process", "returned"} /\ idx > 1

\* The start/stop invocations of the current process_cluster.
LogInvocations == {j \in DOMAIN log : log[j].op \in StartStopOps}

\* Confirmatory reads of the current process_cluster (entry 1 is the fetch).
LogConfirms ==
    {j \in DOMAIN log : j > 1 /\ log[j].op = "describe_db_clusters"}

IsFault(res) == res \in {OtherFault, InvalidDBClusterStateFault}

\* The cluster passed the eligibility filter and the tag store answered its
\* lookup with a list that carries the key.
PassedBoth(cluster) ==
    /\ is_stoppable_cluster(cluster)
    /\ \E j \in DOMAIN trace :
         /\ trace[j].op = "list_tags_for_resource"
         /\ trace[j].arg = cluster.DBClusterArn
         /\ trace[j].res = "tagged"

\* C1: when the run returns a report, every cluster of the inventory that
\* passed the filter and the tag gate is in exactly one of the three lists,
\* and every other cluster is in none.
C1_ReportPartition ==
    pc = "returned" =>
        \A k \in DOMAIN inventory :
            Listed(inventory[k].DBClusterIdentifier)
                = IF PassedBoth(inventory[k]) THEN 1 ELSE 0

\* A Stop run over two clusters returned: one was rejected by the filter or
\* the gate, the other was tagged and is the only one listed, as processed.
C1_Witness ==
    /\ pc = "returned"
    /\ action = ACTION_STOP
    /\ Len(inventory) = 2
    /\ \E k \in DOMAIN inventory : ~PassedBoth(inventory[k])
    /\ Len(processed) = 1 /\ skipped = <<>> /\ failed = <<>>

\* C2: under a Start request the executor is entered, and start invoked,
\* only when the status fetched at the beginning of process_cluster is
\* stopped; with any other fetched status the cluster is skipped and no
\* start/stop invocation is made for it in the run.
C2_StartOnlyFromStopped ==
    action = ACTION_START =>
        /\ pc \in {"invoke", "confirm"} => current_status = STATUS_STOPPED
        /\ LogInvocations # {} =>
               /\ log[1].op = "describe_db_clusters"
               /\ log[1].res = STATUS_STOPPED
        /\ (Finished /\ log[1].res \in Statuses \ {STATUS_STOPPED}) =>
               /\ result.outcome = "skipped"
               /\ Occurrences(skipped, result.cluster_id) = 1
               /\ InvocationsOf(result.cluster_id) = 0
        /\ \A j \in DOMAIN skipped : InvocationsOf(skipped[j]) = 0

\* A Start run in which a cluster listed as available at discovery was
\* fetched as stopped and started, and the next one was fetched as stopping
\* and skipped.
C2_Witness ==
    /\ action = ACTION_START
    /\ pc = "returned"
    /\ Len(eligible) = 2
    /\ inventory[1].Status = STATUS_AVAILABLE
    /\ InvocationsOf(eligible[1]) > 0
    /\ log[1].res = STATUS_STOPPING
    /\ skipped = <<eligible[2]>>

\* C3: under a Stop request the executor is entered, and stop invoked, only
\* when the freshly fetched status is available; with any other fetched
\* status the cluster is skipped and no start/stop invocation is made for it.
C3_StopOnlyFromAvailable ==
    action = ACTION_STOP =>
        /\ pc \in {"invoke", "confirm"} => current_status = STATUS_AVAILABLE
        /\ LogInvocations # {} =>
               /\ log[1].op = "describe_db_clusters"
               /\ log[1].res = STATUS_AVAILABLE
        /\ (Finished /\ log[1].res \in Statuses \ {STATUS_AVAILABLE}) =>
               /\ result.outcome = "skipped"
               /\ Occurrences(skipped, result.cluster_id) = 1
               /\ InvocationsOf(result.cluster_id) = 0
        /\ \A j \in DOMAIN skipped : InvocationsOf(skipped[j]) = 0

\* A Stop run in which a tagged cluster was fetched as stopping and skipped
\* with no invocation, after another one was fetched as available and
\* stopped.
C3_Witness ==
    /\ action = ACTION_STOP
    /\ pc = "returned"
    /\ Len(eligible) = 2
    /\ AcceptedOf(eligible[1]) > 0
    /\ log = <<[op |-> "describe_db_clusters", res |-> STATUS_STOPPING]>>
    /\ skipped = <<eligible[2]>>
    /\ InvocationsOf(eligible[2]) = 0

\* C4: when a start/stop invocation was accepted and the confirmatory read
\* after it failed, nothing follows the read in the executor: no retry delay
\* and no further invocation or read, there is exactly one confirmatory
\* read, and the cluster fails with the read's fault.
C4_ConfirmFaultNotRetried ==
    \A j \in LogConfirms :
        IsFault(log[j].res) =>
            /\ j = Len(log)
            /\ LogConfirms = {j}
            /\ Finished
            /\ result.outcome = "failed"
            /\ result.message.exc = Exc(log[j].res, Len(trace))

\* C5: an InvalidDBClusterStateFault raised by the invocation of attempt k is
\* the last thing the executor does: no delay and no call follows, exactly k
\* invocations were made, the fault is the one the cluster fails with, the
\* cluster is listed as failed and the run goes on.
C5_InvalidStateNotRetried ==
    \A j \in LogInvocations :
        log[j].res = InvalidDBClusterStateFault =>
            /\ j = Len(log)
            /\ attempt \in 1..MAX_RETRIES
            /\ Cardinality(LogInvocations) = attempt
            /\ InvocationsOf(result.cluster_id) = attempt
            /\ Finished
            /\ error = ""
            /\ result.outcome = "failed"
            /\ result.message.exc
                   = Exc(InvalidDBClusterStateFault, Len(trace))
            /\ trace[Len(trace)].op \in StartStopOps
            /\ Occurrences(failed, result.cluster_id) = 1

\* The first of two eligible clusters got the InvalidDBClusterStateFault on
\* its second attempt and failed; the run went on to fetch the second one.
C5_Witness ==
    /\ Len(eligible) = 2
    /\ failed = <<eligible[1]>>
    /\ idx = 2 /\ pc = "process"
    /\ attempt = 2
    /\ Cardinality(LogInvocations) = 2
    /\ log[Len(log)].op \in StartStopOps
    /\ log[Len(log)].res = InvalidDBClusterStateFault

\* The invocation of the current request refused with a transient fault.
TransientInvocation == [op |-> ApiCall(action), res |-> OtherFault]

\* C6: when process_cluster has returned and every invocation it made
\* raised a transient fault, the executor made exactly 3 invocations with a
\* delay of 5 between consecutive ones and none after the third, and the
\* cluster fails with the fault of the third invocation.
C6_TransientExhausted ==
    (/\ Finished
     /\ LogInvocations # {}
     /\ \A j \in LogInvocations : log[j].res = OtherFault) =>
        /\ log = <<log[1],
                   TransientInvocation, Sleep(RETRY_DELAY_SECONDS),
                   TransientInvocation, Sleep(RETRY_DELAY_SECONDS),
                   TransientInvocation>>
        /\ InvocationsOf(result.cluster_id) = MAX_RETRIES
        /\ result.outcome = "failed"
        /\ result.message.exc = Exc(OtherFault, Len(trace))
        /\ trace[Len(trace)] = Call(ApiCall(action), result.cluster_id,
                                    "fault")

\* A cluster whose three invocations all raised a transient fault.
C6_Witness ==
    /\ Finished
    /\ Cardinality(LogInvocations) = 3
    /\ \A j \in LogInvocations : log[j].res = OtherFault
    /\ failed # <<>>

\* C7: when the first invocation raised a transient fault and the second
\* was accepted and confirmed, nothing follows: exactly 2 invocations were
\* made for the cluster and it is listed as processed with the status the
\* confirmatory read returned.
C7_RetryThenSuccess ==
    (/\ Len(log) >= 6
     /\ log[2] = TransientInvocation
     /\ log[4] = [op |-> ApiCall(action), res |-> "ok"]
     /\ log[6].op = "describe_db_clusters"
     /\ log[6].res \in Statuses) =>
        /\ Len(log) = 6
        /\ log[3] = Sleep(RETRY_DELAY_SECONDS)
        /\ InvocationsOf(result.cluster_id) = 2
        /\ Finished
        /\ result.outcome = "processed"
        /\ result.status = log[6].res
        /\ Occurrences(processed, result.cluster_id) = 1
        /\ Occurrences(skipped, result.cluster_id) = 0
        /\ Occurrences(failed, result.cluster_id) = 0

\* A tagged cluster fetched as stopped under a Start request: the first
\* start raised a transient fault, the second was accepted, the read
\* returned starting and the cluster is processed.
C7_Witness ==
    /\ action = ACTION_START
    /\ pc = "returned"
    /\ Len(log) = 6
    /\ log[1].res = STATUS_STOPPED
    /\ log[2] = TransientInvocation
    /\ log[4] = [op |-> "start_db_cluster", res |-> "ok"]
    /\ log[6].res = STATUS_STARTING
    /\ result.status = STATUS_STARTING
    /\ processed = <<result.cluster_id>>
    /\ InvocationsOf(result.cluster_id) = 2

\* The calls of the processing phase.
ProcessingOps == StartStopOps \cup {"describe_db_clusters"}

\* A call of the processing phase for the cluster raised a fault.
FaultedInProcessing(id) ==
    \E j \in DOMAIN trace :
        /\ trace[j].op \in ProcessingOps
        /\ trace[j].arg = id
        /\ trace[j].res = "fault"

\* C8: a fault while a cluster is processed never aborts the run; when the
\* last call of process_cluster raised, the cluster is listed as failed and
\* only as failed; a cluster is listed as failed only if one of its own
\* calls raised; the loop has handled exactly the clusters before idx, and
\* the report accounts for every eligible cluster.
C8_FaultIsolated ==
    /\ (\E j \in DOMAIN trace : trace[j].op \in ProcessingOps) =>
           pc # "aborted" /\ error = ""
    /\ (Finished /\ IsFault(log[Len(log)].res)) =>
           /\ result.outcome = "failed"
           /\ Occurrences(failed, result.cluster_id) = 1
           /\ Occurrences(processed, result.cluster_id) = 0
           /\ Occurrences(skipped, result.cluster_id) = 0
    /\ \A j \in DOMAIN failed : FaultedInProcessing(failed[j])
    /\ pc \in {"process", "invoke", "confirm", "returned"} =>
           /\ idx <= Len(eligible) + 1
           /\ \A k \in DOMAIN eligible :
                  Listed(eligible[k]) = IF k < idx THEN 1 ELSE 0
    /\ pc = "returned" => idx = Len(eligible) + 1

\* The status fetch of the first eligible cluster raised, and the second
\* one was still processed and the report returned.
C8_Witness ==
    /\ pc = "returned"
    /\ Len(eligible) = 2
    /\ failed = <<eligible[1]>>
    /\ processed = <<eligible[2]>>
    /\ InvocationsOf(eligible[1]) = 0

\* The pairs of a letter and the same letter in the other case.
CasePairs ==
    {<<LowerLetters[n], UpperLetters[n]>> : n \in DOMAIN LowerLetters}
        \cup {<<UpperLetters[n], LowerLetters[n]>> : n \in DOMAIN LowerLetters}

\* The raw string equals the target up to the case of its letters.
EqualsIgnoringCase(raw, target) ==
    /\ Len(raw) = Len(target)
    /\ \A k \in DOMAIN raw :
         raw[k] = target[k] \/ <<raw[k], target[k]>> \in CasePairs

\* C9: once the input is validated, an Action that is start or stop up to
\* case raises no configuration error, and any other Action (or none)
\* aborts the run with the configuration error before any remote call.
C9_ActionValidated ==
    pc # "validate" =>
        IF \E target \in {ACTION_START, ACTION_STOP} :
               EqualsIgnoringCase(Get(event, "Action", <<>>), target)
        THEN error # "ValueError"
        ELSE pc = "aborted" /\ error = "ValueError" /\ trace = <<>>

\* The run with Action "pause" aborted with the configuration error and
\* made no remote call.
C9_Witness ==
    /\ Get(event, "Action", <<>>) = <<"p", "a", "u", "s", "e">>
    /\ pc = "aborted"
    /\ error = "ValueError"
    /\ trace = <<>>

\* C10: for every cluster the service accepts at most one start/stop
\* invocation during the run.
C10_AcceptedAtMostOnce ==
    \A k \in DOMAIN inventory :
        AcceptedOf(inventory[k].DBClusterIdentifier) <= 1

\* The tag lookups of the run, as positions in the trace.
TagLookups == {j \in DOMAIN trace : trace[j].op = "list_tags_for_resource"}

\* The identifier of the cluster a tag lookup names.
LookupId(j) == trace[j].arg[2]

\* Remote calls of the processing phase that name the cluster.
ProcessingCallsOf(id) ==
    Cardinality({j \in DOMAIN trace :
                    trace[j].op \in ProcessingOps /\ trace[j].arg = id})

\* C11: a cluster is admitted to the eligible list exactly when its tag
\* lookup succeeded with a list carrying the key, whatever the values; a
\* lookup that failed does not abort the run, and its cluster is not
\* eligible, is fetched and invoked zero times and is in no report list.
C11_TagGate ==
    \A j \in TagLookups :
        /\ Occurrences(eligible, LookupId(j))
               = IF trace[j].res = "tagged" THEN 1 ELSE 0
        /\ trace[j].res = "fault" =>
               /\ pc # "aborted"
               /\ error = ""
               /\ ProcessingCallsOf(LookupId(j)) = 0
               /\ Listed(LookupId(j)) = 0

\* The tag lookup of the first cluster failed; the run went on, admitted the
\* second cluster on a tag with an empty value, processed it and returned.
C11_Witness ==
    /\ pc = "returned"
    /\ Len(inventory) = 2
    /\ \E j \in TagLookups :
         trace[j].res = "fault" /\ LookupId(j) = ClusterIds[1]
    /\ tags = <<[Key |-> "Schedule", Value |-> ""]>>
    /\ eligible = <<ClusterIds[2]>>
    /\ processed = <<ClusterIds[2]>>

\* The inventory page reads of the run, as positions in the trace.
PageReads ==
    {j \in DOMAIN trace : trace[j].op = "describe_db_clusters_page"}

\* C12: when a page read failed, it is the last call of the run: the run is
\* aborted with the discovery fault, no report is returned, and the trace
\* holds page reads only, so no tag lookup, status fetch or start/stop
\* invocation was made, also for the clusters of the pages read before.
C12_DiscoveryFaultAborts ==
    \A j \in PageReads :
        trace[j].res = "fault" =>
            /\ j = Len(trace)
            /\ pc = "aborted"
            /\ error = "DiscoveryFault"
            /\ PageReads = DOMAIN trace
            /\ eligible = <<>>
            /\ processed = <<>> /\ skipped = <<>> /\ failed = <<>>

\* The first page was read and held a cluster, the read of the second page
\* failed and the run aborted.
C12_Witness ==
    /\ pc = "aborted"
    /\ Len(trace) = 2
    /\ trace[1].res = "ok"
    /\ trace[2].res = "fault"
    /\ Len(all_clusters) >= 1
    /\ is_stoppable_cluster(all_clusters[1])

\* The engine modes the claim names.
ClaimedUnstoppableModes ==
    { <<"g", "l", "o", "b", "a", "l">>,
      <<"p", "a", "r", "a", "l", "l", "e", "l", "q", "u", "e", "r", "y">>,
      <<"m", "u", "l", "t", "i", "m", "a", "s", "t", "e", "r">>,
      <<"s", "e", "r", "v", "e", "r", "l", "e", "s", "s">> }

\* The descriptor is one the claim says is rejected: its engine mode
\* (provisioned when absent) is one of the four names up to case, or its
\* engine name begins with mysql or postgres and the marker field is there.
ClaimedRejected(d) ==
    \/ \E m \in ClaimedUnstoppableModes :
         EqualsIgnoringCase(
             IF "EngineMode" \in DOMAIN d THEN d.EngineMode
             ELSE <<"p", "r", "o", "v", "i", "s", "i", "o", "n", "e", "d">>,
             m)
    \/ /\ "Engine" \in DOMAIN d
       /\ "DBClusterInstanceClass" \in DOMAIN d
       /\ \/ /\ Len(d.Engine) >= 5
             /\ SubSeq(d.Engine, 1, 5) = <<"m", "y", "s", "q", "l">>
          \/ /\ Len(d.Engine) >= 8
             /\ SubSeq(d.Engine, 1, 8)
                    = <<"p", "o", "s", "t", "g", "r", "e", "s">>

\* C13: is_stoppable_cluster is false exactly for the descriptors the claim
\* names, and the filter loop acts on it: once the loop has passed a
\* cluster, a tag lookup was made for it exactly when it is not one of them.
C13_StoppableExactly ==
    \A k \in DOMAIN all_clusters :
        /\ is_stoppable_cluster(all_clusters[k])
               <=> ~ClaimedRejected(all_clusters[k])
        /\ (pc = "filter" /\ k < scan) =>
               ((\E j \in TagLookups :
                    trace[j].arg = all_clusters[k].DBClusterArn)
                <=> ~ClaimedRejected(all_clusters[k]))

\* The filter loop passed a cluster without EngineMode and with the marker
\* field whose engine is aurora-mysql, and looked up its tags.
C13_Witness ==
    /\ pc = "filter"
    /\ scan = 2
    /\ "EngineMode" \notin DOMAIN all_clusters[1]
    /\ "DBClusterInstanceClass" \in DOMAIN all_clusters[1]
    /\ "Engine" \in DOMAIN all_clusters[1]
    /\ all_clusters[1].Engine = EngineAuroraMysql
    /\ TagLookups # {}

\* The identifiers of a list of descriptors.
Identifiers(clusters) ==
    [k \in DOMAIN clusters |-> clusters[k].DBClusterIdentifier]

\* The position of an identifier in a list that holds it once.
Position(list, id) == CHOOSE k \in DOMAIN list : list[k] = id

\* The members of sub are members of ref and stand in the order of ref
\* (ref holds no identifier twice).
InOrderOf(sub, ref) ==
    /\ \A a \in DOMAIN sub : sub[a] \in Range(ref)
    /\ \A a, b \in DOMAIN sub :
         a < b => Position(ref, sub[a]) < Position(ref, sub[b])

\* The calls of the processing phase, as positions in the trace.
ProcessingCalls == {j \in DOMAIN trace : trace[j].op \in ProcessingOps}

IsProcessingCall(e) == e.op \in ProcessingOps

\* C14: the descriptors read are a prefix of the inventory in listing order,
\* the eligible identifiers stand in discovery order, the calls of the
\* processing phase name the eligible clusters in that order, and each
\* report list stands in that order too.
C14_OrderPreserved ==
    /\ Len(all_clusters) <= Len(inventory)
    /\ all_clusters = SubSeq(inventory, 1, Len(all_clusters))
    /\ InOrderOf(eligible, Identifiers(all_clusters))
    /\ LET calls == SelectSeq(trace, IsProcessingCall)
       IN  \A k \in 1..(Len(calls) - 1) :
               Position(eligible, calls[k].arg)
                   <= Position(eligible, calls[k + 1].arg)
    /\ InOrderOf(processed, eligible)
    /\ InOrderOf(skipped, eligible)
    /\ InOrderOf(failed, eligible)

\* Two eligible clusters were both processed and are listed in discovery
\* order.
C14_Witness ==
    /\ pc = "returned"
    /\ Len(inventory) = 2
    /\ eligible = Identifiers(inventory)
    /\ processed = eligible

\* The call at position j is the status fetch that opens process_cluster: a
\* read that does not follow the pause after an accepted invocation.
IsFetch(j) ==
    /\ trace[j].op = "describe_db_clusters"
    /\ ~(trace[j - 1].op = "sleep"
         /\ trace[j - 1].secs = CONFIRM_PAUSE_SECONDS)

\* The status fetches the run has made for a cluster.
FetchesOf(id) ==
    Cardinality({j \in ProcessingCalls : trace[j].arg = id /\ IsFetch(j)})

\* The call before position j, sleeps left out.
PreviousCall(j) == IF trace[j - 1].op = "sleep" THEN j - 2 ELSE j - 1

\* process_cluster has been entered for the k-th eligible cluster.
Entered(k) == k < idx \/ (k = idx /\ pc \in {"invoke", "confirm"})

\* C15: every eligible cluster is entered once, in turn: it has one status
\* fetch once entered and none before, and one report entry once left; a
\* status fetch is the first processing call that names its cluster, and
\* every other processing call continues the calls of the same cluster, so
\* the calls of two clusters never interleave.
C15_Sequential ==
    LET calls == ProcessingCalls
        fetches == {j \in calls : IsFetch(j)}
    IN  /\ pc \in {"process", "invoke", "confirm", "returned"} =>
               \A k \in DOMAIN eligible :
                   /\ Cardinality({j \in fetches :
                                      trace[j].arg = eligible[k]})
                          = IF Entered(k) THEN 1 ELSE 0
                   /\ ~Entered(k) =>
                          \A j \in calls : trace[j].arg # eligible[k]
                   /\ Listed(eligible[k]) = IF k < idx THEN 1 ELSE 0
        /\ pc = "returned" => \A k \in DOMAIN eligible : Entered(k)
        /\ \A j \in calls :
               IF j \in fetches
               THEN \A l \in calls :
                        l < j => trace[l].arg # trace[j].arg
               ELSE /\ PreviousCall(j) \in calls
                    /\ trace[PreviousCall(j)].arg = trace[j].arg

\* Two clusters were each taken through a retried invocation, one after the
\* other, before the report was returned.
C15_Witness ==
    /\ pc = "returned"
    /\ Len(eligible) = 2
    /\ InvocationsOf(eligible[1]) >= 2
    /\ InvocationsOf(eligible[2]) >= 2

\* The inter-retry delays the run has made for a cluster: the sleeps of
\* RETRY_DELAY_SECONDS that follow a call naming it.
DelaysOf(id) ==
    Cardinality({j \in DOMAIN trace :
                    /\ trace[j] = Sleep(RETRY_DELAY_SECONDS)
                    /\ trace[j - 1].arg = id})

\* The run has ended: the report is returned or the run is aborted.
Ended == pc \in {"returned", "aborted"}

\* C16: in every run at most 3 start/stop invocations and at most 2
\* inter-retry delays are made for each cluster, and the run eventually
\* returns its report or aborts.
C16_Terminates ==
    /\ [](\A k \in DOMAIN inventory :
             /\ InvocationsOf(inventory[k].DBClusterIdentifier) <= 3
             /\ DelaysOf(inventory[k].DBClusterIdentifier) <= 2)
    /\ <>Ended

\* The run returned after a cluster had used all 3 invocations and both
\* delays.
C16_Witness ==
    /\ pc = "returned"
    /\ \E k \in DOMAIN eligible :
         InvocationsOf(eligible[k]) = 3 /\ DelaysOf(eligible[k]) = 2

\* The one status from which the requested action is carried out.
SourceStatus ==
    IF action = <<"s", "t", "a", "r", "t">> THEN "stopped" ELSE "available"

\* The last call of the processing phase that names the cluster.
LastCallOf(id) ==
    LET named == {j \in ProcessingCalls : trace[j].arg = id}
    IN  CHOOSE j \in named : \A l \in named : l <= j

\* C17: a cluster is listed as processed only if its freshly fetched status
\* was the source status of the action, no call of its processing raised
\* InvalidDBClusterStateFault, and its last attempt was an accepted
\* invocation followed by the pause and a confirmatory read that returned a
\* status, which is the status of the outcome.
C17_ProcessedOnlyOnSuccess ==
    /\ \A a \in DOMAIN processed :
         LET j == LastCallOf(processed[a])
         IN  /\ ProcessingCallsOf(processed[a]) >= 3
             /\ trace[j] = Call("describe_db_clusters", processed[a], "ok")
             /\ trace[j - 1] = Sleep(CONFIRM_PAUSE_SECONDS)
             /\ trace[j - 2] = Call(ApiCall(action), processed[a], "ok")
    /\ (Finished /\ Occurrences(processed, result.cluster_id) > 0) =>
           LET n == Len(log)
           IN  /\ result.outcome = "processed"
               /\ n >= 4
               /\ log[1] = [op |-> "describe_db_clusters",
                            res |-> SourceStatus]
               /\ \A j \in LogInvocations \cup LogConfirms :
                      log[j].res # InvalidDBClusterStateFault
               /\ log[n - 2] = [op |-> ApiCall(action), res |-> "ok"]
               /\ log[n - 1] = Sleep(CONFIRM_PAUSE_SECONDS)
               /\ log[n].op = "describe_db_clusters"
               /\ log[n].res \in Statuses
               /\ result.status = log[n].res

\* A cluster fetched as available under Stop: the first stop was accepted
\* but its confirmatory read raised, the second stop was accepted and
\* confirmed as stopping, and the cluster is listed as processed with it.
C17_Witness ==
    /\ action = ACTION_STOP
    /\ Finished
    /\ processed = <<result.cluster_id>>
    /\ Len(log) = 8
    /\ log[1].res = STATUS_AVAILABLE
    /\ log[4].res = OtherFault
    /\ log[8].res = STATUS_STOPPING
    /\ result.status = STATUS_STOPPING

\* The tag lookups that name the cluster.
LookupsOf(cluster) ==
    {j \in TagLookups : trace[j].arg = cluster.DBClusterArn}

\* C18: for a cluster the eligibility filter rejects the run makes no tag
\* lookup, status fetch or start/stop invocation; for a cluster the tag gate
\* rejects (its lookup failed or found no key) the run makes exactly that
\* one lookup and no status fetch or start/stop invocation.  With no
\* start/stop invocation the run has not changed the cluster's lifecycle
\* state.
C18_RejectedUntouched ==
    \A k \in DOMAIN inventory :
        LET cluster == inventory[k]
            id == cluster.DBClusterIdentifier
            rejected == ClaimedRejected(cluster)
            lookups == LookupsOf(cluster)
            untouched == ProcessingCallsOf(id) = 0 /\ Listed(id) = 0
        IN  /\ rejected => (lookups = {} /\ untouched)
            /\ (\E j \in lookups : trace[j].res # "tagged") =>
                   (Cardinality(lookups) = 1 /\ untouched)
            /\ (~rejected
                /\ pc \in {"process", "invoke", "confirm", "returned"}) =>
                   Cardinality(lookups) = 1

\* The run returned over a Multi-AZ DB cluster, which the filter rejected,
\* and an Aurora cluster whose tag list lacks the key: the only calls after
\* discovery are the one tag lookup.
C18_Witness ==
    /\ pc = "returned"
    /\ Len(inventory) = 2
    /\ "DBClusterInstanceClass" \in DOMAIN inventory[1]
    /\ Len(trace) = 3
    /\ trace[3] = Call("list_tags_for_resource", inventory[2].DBClusterArn,
                       "untagged")
    /\ eligible = <<>>

\* The phase a trace entry belongs to: discovery, tag gate, processing.
PhaseOf(e) ==
    IF e.op = "describe_db_clusters_page" THEN "discovery"
    ELSE IF e.op = "list_tags_for_resource" THEN "gate"
    ELSE "processing"

\* The phases in the order of a run.
PhaseRank(phase) ==
    CASE phase = "discovery" -> 1 [] phase = "gate" -> 2
      [] phase = "processing" -> 3

IsTaggedLookup(e) == e.op = "list_tags_for_resource" /\ e.res = "tagged"

\* The identifiers the tag store admitted, in the order of the lookups.
AdmittedByLookups ==
    LET admitted == SelectSeq(trace, IsTaggedLookup)
    IN  [k \in DOMAIN admitted |-> admitted[k].arg[2]]

\* C19: the calls of a run come in phases that do not overlap: no entry of
\* the trace belongs to an earlier phase than the entry before it; when the
\* first tag lookup is made every page has been read and the whole
\* inventory is held; when the first processing call is made every cluster
\* the filter accepts has had its tag lookup and the eligible list is the
\* list those lookups admitted, and it stays so.
C19_PhasesInOrder ==
    /\ \A j \in 2..Len(trace) :
         PhaseRank(PhaseOf(trace[j - 1])) <= PhaseRank(PhaseOf(trace[j]))
    /\ (\E j \in DOMAIN trace : trace[j].op = "list_tags_for_resource") =>
           /\ all_clusters = inventory
           /\ Cardinality({j \in PageReads : trace[j].res = "ok"})
                  = NumPages(inventory)
    /\ (\E j \in DOMAIN trace : IsProcessingCall(trace[j])) =>
           /\ eligible = AdmittedByLookups
           /\ \A k \in DOMAIN inventory :
                  ~ClaimedRejected(inventory[k]) =>
                      \E j \in DOMAIN trace :
                          /\ trace[j].op = "list_tags_for_resource"
                          /\ trace[j].arg = inventory[k].DBClusterArn

\* Both pages were read, then both clusters looked up, then both processed.
C19_Witness ==
    /\ pc = "returned"
    /\ Cardinality(PageReads) >= 1
    /\ Cardinality(TagLookups) = 2
    /\ Len(eligible) = 2
    /\ FetchesOf(eligible[1]) = 1
    /\ FetchesOf(eligible[2]) = 1

====
